---- MODULE Spec2Model ----
(***************************************************************************)
(* Task Manager API (src/main.py): a table of task records in SQLite, the  *)
(* five request handlers over it, and the one background thread per        *)
(* created task that marks the task completed after a sleep.               *)
(*                                                                         *)
(* Every SQL statement of the source runs in a transaction of its own      *)
(* (sqlite3 opens a transaction at INSERT/UPDATE/DELETE and the handler    *)
(* commits right after; SELECT runs outside any transaction), so one       *)
(* statement is one atomic step and a handler with several statements is   *)
(* several steps that other threads interleave with.                       *)
(***************************************************************************)
EXTENDS Integers, Sequences, FiniteSets, TLC

\* ------------------------------------------------------------------ bounds
\* Number of requests that change the table in one behaviour: creates,
\* updates that find their row, deletes that remove one.
MaxRequests == 3
\* Number of tasks created in one behaviour.
MaxTasks == 2
\* The wall clock runs from 0 to MaxTime, in ticks.
MaxTime == 1
\* Clock ticks per second (10^6 microseconds in the source, scaled down):
\* decides where isoformat() drops the fraction.
TicksPerSec == 2

\* ------------------------------------------------------------------ values
\* Python None / SQL NULL in a string column or a string parameter.
None == "<None>"
\* Python None / SQL NULL in a timestamp column, and an absent limit.
NoTs == <<>>

\* uuid4 values are modelled as the fresh identifiers 1, 2, ...
TaskIds == 1..MaxTasks
\* Names a create request carries (TaskCreate.name).
CreateNames == {"a"}
\* Names and statuses an update request carries (TaskUpdate, both Optional).
UpdateNames == {None, "", "x"}
UpdateStatuses == {None, "", "running", "completed", "done"}
\* Query parameters of the list request.
ListStatuses == {None, "", "running", "completed", "done"}
ListLimits == {NoTs, <<-1>>, <<0>>, <<1>>, <<2>>}
\* The request threads that run update_task.
Workers == {1}

VARIABLES
    store,    \* the tasks table: task id -> row
    nextId,   \* the next fresh identifier uuid4 hands out
    now,      \* the wall clock datetime.now() reads
    threads,  \* task id -> the complete_task thread served for it
    reqs,     \* worker -> the update_task call it is running
    deleted,  \* ids whose DELETE removed a row (history)
    served,   \* how many requests changed the table so far (history)
    last      \* the step taken last: for a handler's end its response, for
              \* an UPDATE the columns it set and the row it found

vars == <<store, nextId, now, threads, reqs, deleted, served, last>>

\* ------------------------------------------------------- time and its text
\* datetime.isoformat(): the fixed-width date and time to the second, then
\* the fixed-width fraction, which is omitted when it is zero.  A text is
\* the sequence of its fixed-width fields.
IsoFormat(t) ==
    IF t % TicksPerSec = 0 THEN <<t \div TicksPerSec>>
    ELSE <<t \div TicksPerSec, t % TicksPerSec>>

\* SQLite's BINARY collation on TEXT (memcmp, then the shorter first).
TextLess(a, b) ==
    \E k \in 1..Len(b) :
        /\ Len(a) >= k - 1
        /\ \A j \in 1..(k - 1) : a[j] = b[j]
        /\ \/ Len(a) = k - 1
           \/ a[k] < b[k]

TextLeq(a, b) == a = b \/ TextLess(a, b)

\* Python truthiness of an Optional[str]: None and "" are falsy.
Truthy(s) == s # None /\ s # ""

\* Python truthiness of an Optional[int] (a limit is <<>> or <<n>>).
TruthyInt(l) == l # NoTs /\ l[1] # 0

\* -------------------------------------------------------------- the table
\* INSERT INTO tasks VALUES (...) of a row with a fresh id.
SqlInsert(db, task) ==
    [i \in DOMAIN db \cup {task.id} |-> IF i = task.id THEN task ELSE db[i]]

\* SELECT * FROM tasks WHERE id = ? ... fetchone(): <<row>>, or <<>> for None.
SelectById(db, id) == IF id \in DOMAIN db THEN <<db[id]>> ELSE <<>>

\* ApplyUpdates that keeps a completed_at already set
\* (completed_at = COALESCE(completed_at, ?)).
ApplyUpdatesKeepingStamp(row, updates) ==
    [row EXCEPT
        !.status = IF updates.status # None THEN updates.status ELSE @,
        !.completed_at =
            IF updates.completed_at # NoTs /\ @ = NoTs
            THEN updates.completed_at ELSE @,
        !.name = IF updates.name # None THEN updates.name ELSE @]

\* ApplyUpdates that clears completed_at when the status leaves "completed"
\* (completed_at = NULL added to the SET clause).
ApplyUpdatesClearing(row, updates) ==
    [row EXCEPT
        !.status = IF updates.status # None THEN updates.status ELSE @,
        !.completed_at =
            IF updates.completed_at # NoTs THEN updates.completed_at
            ELSE IF updates.status # None THEN NoTs ELSE @,
        !.name = IF updates.name # None THEN updates.name ELSE @]

\* ApplyUpdates that moves created_at along with a completed_at it sets
\* (created_at = ? added to the SET clause).
ApplyUpdatesTouching(row, updates) ==
    [row EXCEPT
        !.status = IF updates.status # None THEN updates.status ELSE @,
        !.completed_at =
            IF updates.completed_at # NoTs THEN updates.completed_at ELSE @,
        !.created_at =
            IF updates.completed_at # NoTs THEN updates.completed_at ELSE @,
        !.name = IF updates.name # None THEN updates.name ELSE @]

\* The row with the columns named in `updates` replaced.
ApplyUpdates(row, updates) ==
    [row EXCEPT
        !.status = IF updates.status # None THEN updates.status ELSE @,
        !.completed_at =
            IF updates.completed_at # NoTs THEN updates.completed_at ELSE @,
        !.name = IF updates.name # None THEN updates.name ELSE @]

\* UPDATE tasks SET ... WHERE id = ?: no row matches an absent id, and that
\* is no error.
SqlUpdate(db, id, updates) ==
    IF id \in DOMAIN db
    THEN [db EXCEPT ![id] = ApplyUpdates(@, updates)]
    ELSE db

\* SqlDelete without its WHERE clause (DELETE FROM tasks).
SqlDeleteAll(db, id) == <<>>

\* DELETE FROM tasks WHERE id = ?
SqlDelete(db, id) == [i \in DOMAIN db \ {id} |-> db[i]]

\* result.rowcount of that DELETE
DeleteRowCount(db, id) == IF id \in DOMAIN db THEN 1 ELSE 0

\* ------------------------------------------------------------- responses
NoArg == [status |-> None, name |-> None, completed_at |-> NoTs, limit |-> NoTs]

Response(op, id, arg, code, body) ==
    [op |-> op, id |-> id, arg |-> arg, code |-> code, body |-> body]

\* A step that ends no request and writes nothing.  (The two steps that
\* write and end no request, the UPDATE of complete_task and the UPDATE of
\* update_task, record their columns as arg and the row as it was before
\* the statement as body, with code 0.)
Internal == Response("step", 0, NoArg, 0, <<>>)

Idle == [pc |-> "idle", task_id |-> 0, updates |-> NoArg]

\* ------------------------------------------------------------------ Init
\* init_db() creates the empty table; no request has run.
Init ==
    /\ store = <<>>
    /\ nextId = 1
    /\ now = 0
    /\ threads = <<>>
    /\ reqs = [w \in Workers |-> Idle]
    /\ deleted = {}
    /\ served = 0
    /\ last = Internal

\* --------------------------------------------------------------- the clock
Tick ==
    /\ now < MaxTime
    /\ now' = now + 1
    /\ last' = Internal
    /\ UNCHANGED <<store, nextId, threads, reqs, deleted, served>>

\* ------------------------------------------------------------ create_task
\* NewTask with completed_at stamped at creation.
NewTaskStamped(id, name, t) ==
    [id |-> id, name |-> name, status |-> "running",
     created_at |-> IsoFormat(t), completed_at |-> IsoFormat(t)]

\* The dict built at lines 72-78.
NewTask(id, name, t) ==
    [id |-> id, name |-> name, status |-> "running",
     created_at |-> IsoFormat(t), completed_at |-> NoTs]

\* POST /tasks: insert the row, start the completion thread, return the dict.
CreateTask(name) ==
    /\ nextId <= MaxTasks
    /\ served < MaxRequests
    /\ served' = served + 1
    /\ LET task == NewTask(nextId, name, now) IN
        /\ store' = SqlInsert(store, task)
        /\ threads' = [i \in DOMAIN threads \cup {nextId} |->
                          IF i = nextId
                          THEN [pc |-> "sleep", completed_at |-> NoTs]
                          ELSE threads[i]]
        /\ last' = Response("create", nextId, [NoArg EXCEPT !.name = name],
                            201, <<task>>)
    /\ nextId' = nextId + 1
    /\ UNCHANGED <<now, reqs, deleted>>

\* ---------------------------------------------------------- complete_task
\* The background thread, lines 91-92: the sleep ends and the thread reads
\* the clock.  Nothing orders the end of the sleep against the requests of
\* other threads, so it may end at any step.
CompleteRead(id) ==
    /\ id \in DOMAIN threads
    /\ threads[id].pc = "sleep"
    /\ threads' = [threads EXCEPT
                      ![id] = [pc |-> "write", completed_at |-> IsoFormat(now)]]
    /\ last' = Internal
    /\ UNCHANGED <<store, nextId, now, reqs, deleted, served>>

\* The columns the thread's UPDATE sets (line 96).
CompleteUpdates(ts) == [NoArg EXCEPT !.status = "completed", !.completed_at = ts]

\* CompleteStatement as INSERT OR REPLACE: writes the row whether or not it
\* is there.
CompleteUpsert(db, id, ts) ==
    [i \in DOMAIN db \cup {id} |->
        IF i # id THEN db[i]
        ELSE IF id \in DOMAIN db
             THEN ApplyUpdates(db[id], CompleteUpdates(ts))
             ELSE [id |-> id, name |-> None, status |-> "completed",
                   created_at |-> ts, completed_at |-> ts]]

\* CompleteStatement with WHERE id = ? AND status = 'running'.
CompleteIfRunning(db, id, ts) ==
    IF id \in DOMAIN db /\ db[id].status = "running"
    THEN SqlUpdate(db, id, CompleteUpdates(ts))
    ELSE db

\* The statement the thread runs at lines 94-100.
CompleteStatement(db, id, ts) == SqlUpdate(db, id, CompleteUpdates(ts))

\* The background thread, lines 94-100: the UPDATE and its commit.
CompleteWrite(id) ==
    /\ id \in DOMAIN threads
    /\ threads[id].pc = "write"
    /\ store' = CompleteStatement(store, id, threads[id].completed_at)
    /\ threads' = [threads EXCEPT ![id] = [pc |-> "done", completed_at |-> NoTs]]
    /\ last' = Response("complete", id, CompleteUpdates(threads[id].completed_at),
                        0, SelectById(store, id))
    /\ UNCHANGED <<nextId, now, reqs, deleted, served>>

\* --------------------------------------------------------------- get_task
\* GetResponse without the check for None at line 135: row_to_task(None)
\* raises, and the answer is 500.
GetResponseUnchecked(db, id) ==
    LET row == SelectById(db, id) IN
    IF row = <<>> THEN Response("get", id, NoArg, 500, <<>>)
    ELSE Response("get", id, NoArg, 200, row)

\* GET /tasks/{task_id}
GetResponse(db, id) ==
    LET row == SelectById(db, id) IN
    IF row = <<>> THEN Response("get", id, NoArg, 404, <<>>)
    ELSE Response("get", id, NoArg, 200, row)

GetTask(id) ==
    /\ last' = GetResponse(store, id)
    /\ UNCHANGED <<store, nextId, now, threads, reqs, deleted, served>>

\* ------------------------------------------------------------ delete_task
\* DELETE /tasks/{task_id}: the DELETE, its commit, then rowcount decides.
DeleteTask(id) ==
    /\ DeleteRowCount(store, id) = 0 \/ served < MaxRequests
    /\ served' = IF DeleteRowCount(store, id) = 0 THEN served ELSE served + 1
    /\ store' = SqlDelete(store, id)
    /\ deleted' = IF DeleteRowCount(store, id) = 0 THEN deleted
                  ELSE deleted \cup {id}
    /\ last' = Response("delete", id, NoArg,
                        IF DeleteRowCount(store, id) = 0 THEN 404 ELSE 204, <<>>)
    /\ UNCHANGED <<nextId, now, threads, reqs>>

\* ------------------------------------------------------------ update_task
\* BuildUpdates with line 154 outside the `if` of line 153: completed_at
\* is stamped by every update that sets anything.
BuildUpdatesStamping(status, name, t) ==
    [status |-> IF Truthy(status) THEN status ELSE None,
     completed_at |-> IF Truthy(status) \/ Truthy(name)
                      THEN IsoFormat(t) ELSE NoTs,
     name |-> IF Truthy(name) THEN name ELSE None,
     limit |-> NoTs]

\* BuildUpdates without lines 153-154: a status "completed" is written
\* with no completed_at.
BuildUpdatesNoStamp(status, name, t) ==
    [status |-> IF Truthy(status) THEN status ELSE None,
     completed_at |-> NoTs,
     name |-> IF Truthy(name) THEN name ELSE None,
     limit |-> NoTs]

\* BuildUpdates with the clock of line 154 read once, when the module is
\* loaded (time 0), and not at the request.
BuildUpdatesEpoch(status, name, t) ==
    [status |-> IF Truthy(status) THEN status ELSE None,
     completed_at |-> IF Truthy(status) /\ status = "completed"
                      THEN IsoFormat(0) ELSE NoTs,
     name |-> IF Truthy(name) THEN name ELSE None,
     limit |-> NoTs]

\* The `updates` dict of lines 150-156; t is the clock at line 154.
BuildUpdates(status, name, t) ==
    [status |-> IF Truthy(status) THEN status ELSE None,
     completed_at |-> IF Truthy(status) /\ status = "completed"
                      THEN IsoFormat(t) ELSE NoTs,
     name |-> IF Truthy(name) THEN name ELSE None,
     limit |-> NoTs]

\* `if updates:` is false for the empty dict.
UpdatesEmpty(u) == u.status = None /\ u.completed_at = NoTs /\ u.name = None

\* Requests are taken by the lowest idle worker (the workers are alike).
Free(w) ==
    /\ reqs[w].pc = "idle"
    /\ \A v \in Workers : v < w => reqs[v].pc # "idle"

\* PATCH /tasks/{task_id}, lines 143-156: the first SELECT, the 404 on no
\* row, and the updates dict.
UpdateSelect(w, id, status, name) ==
    /\ Free(w)
    /\ LET updates == BuildUpdates(status, name, now) IN
       IF SelectById(store, id) = <<>>
       THEN /\ last' = Response("update", id, NoArg, 404, <<>>)
            /\ reqs' = reqs
            /\ served' = served
       ELSE /\ served < MaxRequests
            /\ served' = served + 1
            /\ last' = Internal
            /\ reqs' = [reqs EXCEPT ![w] =
                           [pc |-> IF UpdatesEmpty(updates)
                                   THEN "reselect" ELSE "execute",
                            task_id |-> id, updates |-> updates]]
    /\ UNCHANGED <<store, nextId, now, threads, deleted>>

\* UpdateStatement that always writes the status column, with "running"
\* for a request that carries no status.
UpdateStatementWholeRow(db, id, updates) ==
    SqlUpdate(db, id, [updates EXCEPT !.status = IF @ = None THEN "running" ELSE @])

\* The statement of lines 163-166.
UpdateStatement(db, id, updates) == SqlUpdate(db, id, updates)

\* Lines 158-167: the UPDATE and its commit.
UpdateExecute(w) ==
    /\ reqs[w].pc = "execute"
    /\ store' = UpdateStatement(store, reqs[w].task_id, reqs[w].updates)
    /\ reqs' = [reqs EXCEPT ![w].pc = "reselect"]
    /\ last' = Response("update_execute", reqs[w].task_id, reqs[w].updates,
                        0, SelectById(store, reqs[w].task_id))
    /\ UNCHANGED <<nextId, now, threads, deleted, served>>

\* Lines 169-172: the second SELECT and row_to_task of what it fetched.
\* row_to_task(None) raises TypeError, which the framework answers with
\* 500 Internal Server Error.
UpdateResponse(db, id, updates) ==
    LET row == SelectById(db, id) IN
    IF row = <<>> THEN Response("update", id, updates, 500, <<>>)
    ELSE Response("update", id, updates, 200, row)

UpdateReturn(w) ==
    /\ reqs[w].pc = "reselect"
    /\ last' = UpdateResponse(store, reqs[w].task_id, reqs[w].updates)
    /\ reqs' = [reqs EXCEPT ![w] = Idle]
    /\ UNCHANGED <<store, nextId, now, threads, deleted, served>>

\* ------------------------------------------------------------- list_tasks
\* WHERE status = ?, which line 113 adds only for a truthy status.
Matching(db, status) ==
    {i \in DOMAIN db : Truthy(status) => db[i].status = status}

\* ORDER BY created_at DESC: the rows of `ids` in an order in which no row
\* comes before one with a greater created_at.  SQL leaves the order of rows
\* with equal created_at open.
Orderings(db, ids) ==
    {s \in [1..Cardinality(ids) -> ids] :
        /\ \A j, k \in 1..Cardinality(ids) : j # k => s[j] # s[k]
        /\ \A j, k \in 1..Cardinality(ids) :
              j < k => TextLeq(db[s[k]].created_at, db[s[j]].created_at)}

Min(a, b) == IF a < b THEN a ELSE b

\* LIMIT n of SQLite: a negative n is no limit.
LimitClause(rows, n) ==
    IF n < 0 THEN rows ELSE SubSeq(rows, 1, Min(n, Len(rows)))

\* The query of lines 110-123 on the rows in the order `s`.
ListQuery(db, s, limit) ==
    LET rows == [j \in 1..Len(s) |-> db[s[j]]] IN
    IF TruthyInt(limit) THEN LimitClause(rows, limit[1]) ELSE rows

\* GET /tasks
ListTasks(status, limit) ==
    /\ \E s \in Orderings(store, Matching(store, status)) :
          last' = Response("list", 0,
                           [NoArg EXCEPT !.status = status, !.limit = limit],
                           200, ListQuery(store, s, limit))
    /\ UNCHANGED <<store, nextId, now, threads, reqs, deleted, served>>

\* ------------------------------------------------------------------ Next
\* The ids create_task has returned so far (deleted or not).
CreatedIds == {i \in TaskIds : i < nextId}

\* The ids a get request names: those and one that no create has returned.
\* (update_task and delete_task meet an absent row at the deleted ids.)
RequestIds == {i \in TaskIds : i <= nextId}

\* The steps of the table's writers.
Next ==
    \/ Tick
    \/ \E name \in CreateNames : CreateTask(name)
    \/ \E id \in TaskIds : CompleteRead(id)
    \/ \E id \in TaskIds : CompleteWrite(id)
    \/ \E id \in CreatedIds : DeleteTask(id)
    \/ \E w \in Workers, id \in CreatedIds, status \in UpdateStatuses,
          name \in UpdateNames : UpdateSelect(w, id, status, name)
    \/ \E w \in Workers : UpdateExecute(w)
    \/ \E w \in Workers : UpdateReturn(w)

Spec == Init /\ [][Next]_vars

\* The same writers, with get_task as the reader.
NextGet ==
    \/ Next
    \/ \E id \in RequestIds : GetTask(id)

SpecGet == Init /\ [][NextGet]_vars

\* The same writers, with list_tasks as the reader.
NextList ==
    \/ Next
    \/ \E status \in ListStatuses, limit \in ListLimits : ListTasks(status, limit)

SpecList == Init /\ [][NextList]_vars

\* The scheduler runs every started thread: a completion thread that can
\* take a step eventually takes it.
FairSpec ==
    /\ Spec
    /\ \A id \in TaskIds : WF_vars(CompleteRead(id)) /\ WF_vars(CompleteWrite(id))

\* ================================================================ claims
\* The times the clock has shown so far, as isoformat() writes them.
Readings == {IsoFormat(t) : t \in 0..now}

\* C1: the record create returns has status "running" and no completed_at,
\* and when create returns the table holds exactly that record under the new
\* id, its completion thread not yet run: a get of the id at that moment
\* answers with status "running" and no completed_at.
C1_CreateReturnsRunning ==
    last.op = "create" =>
        /\ last.code = 201
        /\ Len(last.body) = 1
        /\ last.body[1].id = last.id
        /\ last.body[1].status = "running"
        /\ last.body[1].completed_at = NoTs
        /\ last.id \in DOMAIN store
        /\ store[last.id] = last.body[1]
        /\ threads[last.id].pc = "sleep"
        /\ GetResponse(store, last.id).code = 200
        /\ GetResponse(store, last.id).body[1].status = "running"
        /\ GetResponse(store, last.id).body[1].completed_at = NoTs

\* A create that returns while an older task is already completed.
C1_Witness ==
    /\ last.op = "create"
    /\ \E i \in DOMAIN store : i # last.id /\ store[i].status = "completed"

\* C2: the completion thread of every created task eventually runs its
\* UPDATE (the scheduler being fair to the thread), and when it runs it on a
\* row that is still there, the row has status "completed" and a
\* completed_at that is present and not before created_at, whatever updates
\* the row had received.
C2_CompletionRuns ==
    /\ [][last'.op = "complete" /\ last'.id \in DOMAIN store =>
            /\ store'[last'.id].status = "completed"
            /\ store'[last'.id].completed_at # NoTs
            /\ TextLeq(store'[last'.id].created_at, store'[last'.id].completed_at)
            /\ store'[last'.id].completed_at \in Readings']_vars
    /\ \A id \in TaskIds :
          (id \in DOMAIN threads) ~> (id \in DOMAIN threads /\ threads[id].pc = "done")

\* The completion has just run on a row an update had set to "done" and
\* renamed.
C2_Witness ==
    /\ last.op = "complete"
    /\ Len(last.body) = 1
    /\ last.body[1].status = "done"
    /\ last.body[1].name = "x"
    /\ store[last.id].status = "completed"

\* C3: once a task is deleted, no later step brings its row back, the
\* completion thread's UPDATE included, which runs to its end on the absent
\* row: a get of the id answers 404 and no listing, in any order of the
\* rows, holds the id.
C3_NoResurrection ==
    /\ \A id \in deleted :
          /\ id \notin DOMAIN store
          /\ GetResponse(store, id).code = 404
          /\ \A s \in Orderings(store, Matching(store, None)) :
                \A j \in 1..Len(ListQuery(store, s, NoTs)) :
                    ListQuery(store, s, NoTs)[j].id # id
    /\ last.op = "complete" /\ last.id \in deleted =>
          /\ last.body = <<>>
          /\ threads[last.id].pc = "done"

\* The completion thread has just run its UPDATE for a deleted task while
\* another task is stored.
C3_Witness ==
    /\ last.op = "complete"
    /\ last.id \in deleted
    /\ threads[last.id].pc = "done"
    /\ store # <<>>

\* C4: every update call ends with a task record (200) or with NotFound
\* (404), and with nothing else.
C4_UpdateOutcomes ==
    last.op = "update" => last.code \in {200, 404}

\* C5: get answers 404 for an id no create has returned and for a deleted
\* id, answers 200 with the stored row for an id created and not deleted,
\* and leaves the table as it was.
C5_GetAnswer ==
    last.op = "get" =>
        IF last.id \in deleted \/ last.id >= nextId
        THEN last.code = 404 /\ last.body = <<>>
        ELSE /\ last.code = 200
             /\ last.id \in DOMAIN store
             /\ last.body = <<store[last.id]>>

C5_Get ==
    [][last'.op = "get" => store' = store /\ C5_GetAnswer']_vars

\* A get has just answered 404 for a deleted id while another row is stored.
C5_Witness ==
    /\ last.op = "get"
    /\ last.code = 404
    /\ last.id \in deleted
    /\ store # <<>>

\* The ids of a listing, as a set.
BodyIds == {last.body[j].id : j \in 1..Len(last.body)}

\* C6: a list request with no filter and no limit answers with every stored
\* record, ordered by created_at descending; and of tasks created one after
\* another the one created later comes first (ids are handed out in the
\* order of creation), so that with a limit of n > 0 the answer is the n
\* most recently created tasks, newest first.
C6_ListNewestFirst ==
    (last.op = "list" /\ last.arg.status = None)
    => /\ last.code = 200
       /\ \A j \in 1..Len(last.body) :
             /\ last.body[j].id \in DOMAIN store
             /\ last.body[j] = store[last.body[j].id]
       /\ last.arg.limit = NoTs =>
             /\ BodyIds = DOMAIN store
             /\ Len(last.body) = Cardinality(DOMAIN store)
       /\ \A j, k \in 1..Len(last.body) :
             j < k => TextLeq(last.body[k].created_at, last.body[j].created_at)
       /\ (last.arg.limit = NoTs \/ last.arg.limit[1] > 0) =>
             /\ \A j, k \in 1..Len(last.body) :
                   j < k => last.body[j].id > last.body[k].id
             /\ \A i \in DOMAIN store \ BodyIds :
                   \A j \in 1..Len(last.body) : i < last.body[j].id

\* C7: a list request with a limit of N answers with at most N records, the
\* first N (or all, if fewer) of a created_at-descending order of the rows
\* it selects.  Stated for N >= 0, where "at most N" can be met at all.
C7_ListLimit ==
    (last.op = "list" /\ last.arg.limit # NoTs /\ last.arg.limit[1] >= 0)
    => /\ Len(last.body) <= last.arg.limit[1]
       /\ \E s \in Orderings(store, Matching(store, last.arg.status)) :
             last.body = [j \in 1..Min(last.arg.limit[1], Len(s)) |-> store[s[j]]]

\* C8: a list request with a status s answers, without error, with records
\* that all have status s, and when no limit is given with every stored
\* record of status s (the empty sequence when there is none).
C8_ListStatus ==
    (last.op = "list" /\ last.arg.status # None)
    => /\ last.code = 200
       /\ \A j \in 1..Len(last.body) : last.body[j].status = last.arg.status
       /\ last.arg.limit = NoTs =>
             BodyIds = {i \in DOMAIN store : store[i].status = last.arg.status}

\* C9: an update that supplies only a name changes the name of its row and
\* nothing else: the row's id, status, created_at and completed_at and
\* every other row stay as they were.
C9_NameOnly ==
    (/\ last.op = "update_execute"
     /\ last.arg.status = None
     /\ last.arg.name # None
     /\ last.body # <<>>)
    => /\ last.arg.completed_at = NoTs
       /\ last.id \in DOMAIN store
       /\ store[last.id] = [last.body[1] EXCEPT !.name = last.arg.name]

C9_NameOnlyFrame ==
    [][(/\ last'.op = "update_execute"
        /\ last'.arg.status = None
        /\ last'.arg.name # None
        /\ last'.body # <<>>)
       => /\ C9_NameOnly'
          /\ last'.body = <<store[last'.id]>>
          /\ DOMAIN store' = DOMAIN store
          /\ \A i \in DOMAIN store : i # last'.id => store'[i] = store[i]]_vars

\* A name-only update has just renamed a completed row while another row is
\* stored.
C9_Witness ==
    /\ last.op = "update_execute"
    /\ last.arg.status = None
    /\ last.arg.name = "x"
    /\ Len(last.body) = 1
    /\ last.body[1].name = "a"
    /\ last.body[1].status = "completed"
    /\ store[last.id].name = "x"
    /\ Cardinality(DOMAIN store) >= 2

\* C10: an update with status "completed" sets the row's status to
\* "completed" and its completed_at to the time the update read from the
\* clock, replacing a completed_at that was already there.
C10_CompletedStamps ==
    (/\ last.op = "update_execute"
     /\ last.arg.status = "completed"
     /\ last.body # <<>>)
    => /\ last.id \in DOMAIN store
       /\ last.arg.completed_at \in Readings
       /\ store[last.id] = [last.body[1] EXCEPT
                               !.status = "completed",
                               !.completed_at = last.arg.completed_at,
                               !.name = IF last.arg.name # None
                                        THEN last.arg.name ELSE @]

\* An update with status "completed" has just replaced the completed_at of
\* a row that was completed earlier.
C10_Witness ==
    /\ last.op = "update_execute"
    /\ last.arg.status = "completed"
    /\ Len(last.body) = 1
    /\ last.body[1].status = "completed"
    /\ last.body[1].completed_at # NoTs
    /\ last.body[1].completed_at # last.arg.completed_at
    /\ store[last.id].completed_at = last.arg.completed_at

\* C11: an update with a status s that is non-empty and not "completed"
\* ("running" and "done" included) sets the row's status to s and leaves
\* its completed_at as it was, absent or present.
C11_OtherStatusKeepsStamp ==
    (/\ last.op = "update_execute"
     /\ last.arg.status # None
     /\ last.arg.status # "completed"
     /\ last.body # <<>>)
    => /\ last.arg.status # ""
       /\ last.arg.completed_at = NoTs
       /\ last.id \in DOMAIN store
       /\ store[last.id].status = last.arg.status
       /\ store[last.id].completed_at = last.body[1].completed_at
       /\ store[last.id].id = last.body[1].id
       /\ store[last.id].created_at = last.body[1].created_at

\* An update to "running" has just run on a completed row, whose
\* completed_at is still there.
C11_Witness ==
    /\ last.op = "update_execute"
    /\ last.arg.status = "running"
    /\ Len(last.body) = 1
    /\ last.body[1].status = "completed"
    /\ last.body[1].completed_at # NoTs
    /\ store[last.id].status = "running"
    /\ store[last.id].completed_at = last.body[1].completed_at

\* The update_task call a worker's step belongs to carries an empty
\* updates dict.
C12_EmptyCallStep(w) ==
    /\ reqs'[w] # reqs[w]
    /\ UpdatesEmpty(IF reqs[w].pc = "idle" THEN reqs'[w].updates
                    ELSE reqs[w].updates)

\* C12: an update whose status and name are both absent or empty, on an id
\* that is stored, answers 200 with the stored record, and no step of the
\* call changes the table; an update on an id that is not stored answers
\* 404, changes nothing and creates no row.
C12_EmptyUpdate ==
    [][/\ \A w \in Workers : C12_EmptyCallStep(w) => store' = store
       /\ (last'.op = "update" /\ last'.code = 404) =>
              /\ last'.id \notin DOMAIN store
              /\ store' = store
       /\ (last'.op = "update" /\ last'.code # 404 /\ UpdatesEmpty(last'.arg)) =>
              /\ last'.code = 200
              /\ last'.id \in DOMAIN store
              /\ last'.body = <<store[last'.id]>>]_vars

\* C13: a delete of a stored id answers 204 and removes that row and no
\* other, every other row staying as it was; a delete of an id that is not
\* stored answers 404 and changes nothing.  Hence a delete of an id that a
\* delete has already removed answers 404: of the deletes of one id, exactly
\* one succeeds.
C13_Delete ==
    [][last'.op = "delete" =>
          /\ IF last'.id \in DOMAIN store
             THEN /\ last'.code = 204
                  /\ DOMAIN store' = DOMAIN store \ {last'.id}
                  /\ \A i \in DOMAIN store' : store'[i] = store[i]
                  /\ last'.id \notin deleted
                  /\ last'.id \in deleted'
             ELSE /\ last'.code = 404
                  /\ store' = store
                  /\ deleted' = deleted
          /\ last'.id \in deleted => last'.code = 404]_vars

\* A second delete of an id has just answered 404 while another row is
\* stored.
C13_Witness ==
    /\ last.op = "delete"
    /\ last.code = 404
    /\ last.id \in deleted
    /\ store # <<>>

\* The time an isoformat() text stands for (datetime.fromisoformat).
FromIso(text) ==
    text[1] * TicksPerSec + (IF Len(text) = 2 THEN text[2] ELSE 0)

\* C14: in every state, every stored record with a completed_at has
\* created_at <= completed_at, as times and as the stored texts compare.
C14_CreatedBeforeCompleted ==
    \A i \in DOMAIN store :
        store[i].completed_at # NoTs =>
            /\ FromIso(store[i].created_at) <= FromIso(store[i].completed_at)
            /\ TextLeq(store[i].created_at, store[i].completed_at)

\* A record created after the clock moved has a completed_at that an update
\* wrote, while the completion thread of the record has not run.
C14_Witness ==
    \E i \in DOMAIN store :
        /\ store[i].created_at # IsoFormat(0)
        /\ store[i].completed_at # NoTs
        /\ threads[i].pc = "sleep"

\* C15: an update that answers 200 returns the record as the update made
\* it: with the status it carried, if it carried one, and with the name it
\* carried, if it carried one.
C15_UpdateReturnsOwnWrite ==
    (last.op = "update" /\ last.code = 200)
    => /\ last.arg.status # None => last.body[1].status = last.arg.status
       /\ last.arg.name # None => last.body[1].name = last.arg.name

\* C16: the UPDATE of the completion thread and the UPDATE of an update
\* request, in whichever order they run on a stored row, each replace the
\* columns they name and keep the others as the write before left them.  So
\* a name-only update that runs after the completion leaves status
\* "completed" and completed_at present under the new name, the completion
\* that runs after an update keeps the update's name, and the status is the
\* one of the write that ran last.
C16_LastWriterWins ==
    (last.op \in {"update_execute", "complete"} /\ last.body # <<>>)
    => /\ last.id \in DOMAIN store
       /\ store[last.id].status =
             IF last.arg.status # None THEN last.arg.status
             ELSE last.body[1].status
       /\ store[last.id].name =
             IF last.arg.name # None THEN last.arg.name ELSE last.body[1].name
       /\ store[last.id].completed_at =
             IF last.arg.completed_at # NoTs THEN last.arg.completed_at
             ELSE last.body[1].completed_at
       /\ (last.op = "complete") =>
             /\ store[last.id].status = "completed"
             /\ store[last.id].completed_at # NoTs
       /\ (/\ last.op = "update_execute"
           /\ last.arg.status = None
           /\ last.body[1].status = "completed") =>
             /\ store[last.id].status = "completed"
             /\ store[last.id].completed_at # NoTs
             /\ store[last.id].name = last.arg.name

\* The race: the completion thread has just written the row that a
\* name-and-status update, between its SELECT and its UPDATE, is about to
\* write.
C16_Witness ==
    /\ last.op = "complete"
    /\ Len(last.body) = 1
    /\ store[last.id].status = "completed"
    /\ \E w \in Workers :
          /\ reqs[w].pc = "execute"
          /\ reqs[w].task_id = last.id
          /\ reqs[w].updates.status = "done"
          /\ reqs[w].updates.name = "x"

\* C17: a row is stored under its own id; no step changes the id or the
\* created_at of a stored row; a row enters the table only by the create
\* that returns it, with the id and created_at of that answer; and the id a
\* create returns is one no earlier create returned, deleted or not.
C17_IdAndCreatedAtFixed ==
    [][/\ \A i \in DOMAIN store' : store'[i].id = i
       /\ \A i \in DOMAIN store \cap DOMAIN store' :
             /\ store'[i].id = store[i].id
             /\ store'[i].created_at = store[i].created_at
       /\ \A i \in DOMAIN store' \ DOMAIN store :
             /\ last'.op = "create"
             /\ last'.id = i
             /\ store'[i] = last'.body[1]
             /\ store'[i].created_at = IsoFormat(now)
       /\ last'.op = "create" =>
             /\ last'.id \notin CreatedIds
             /\ last'.id \notin deleted
             /\ last'.id \in CreatedIds']_vars

\* After a task was deleted, the completion thread has just written the row
\* of a task created later, at a later time.
C17_Witness ==
    /\ deleted # {}
    /\ last.op = "complete"
    /\ Len(last.body) = 1
    /\ last.id \notin deleted
    /\ last.body[1].created_at # IsoFormat(0)
    /\ store[last.id].created_at = last.body[1].created_at
    /\ store[last.id].completed_at # NoTs

\* C18: in every state, every stored record with status "completed" has a
\* completed_at: each UPDATE that writes the status "completed" writes a
\* completed_at with it, and no UPDATE writes NULL to the column.
C18_CompletedHasStamp ==
    /\ \A i \in DOMAIN store :
          store[i].status = "completed" => store[i].completed_at # NoTs
    /\ (last.op \in {"update_execute", "complete"} /\ last.body # <<>>) =>
          /\ last.arg.status = "completed" => last.arg.completed_at # NoTs
          /\ last.body[1].completed_at # NoTs =>
                store[last.id].completed_at # NoTs

\* An update has just set a row to "completed" that the completion thread
\* has not written, and the row carries the update's completed_at.
C18_Witness ==
    /\ last.op = "update_execute"
    /\ last.arg.status = "completed"
    /\ Len(last.body) = 1
    /\ last.body[1].completed_at = NoTs
    /\ threads[last.id].pc # "done"
    /\ store[last.id].status = "completed"
    /\ store[last.id].completed_at # NoTs

\* C19: the completed_at of a stored record is absent until an UPDATE that
\* writes the status "completed" to it (the completion thread's or an
\* update request's); once present it never becomes absent, and every later
\* change replaces it with a time that is later or equal.
C19_CompletedAtMonotone ==
    [][/\ \A i \in DOMAIN store' \ DOMAIN store : store'[i].completed_at = NoTs
       /\ \A i \in DOMAIN store \cap DOMAIN store' :
             /\ (store[i].completed_at = NoTs /\ store'[i].completed_at # NoTs) =>
                    /\ last'.op \in {"update_execute", "complete"}
                    /\ last'.id = i
                    /\ last'.arg.status = "completed"
                    /\ store'[i].status = "completed"
             /\ store[i].completed_at # NoTs =>
                    /\ store'[i].completed_at # NoTs
                    /\ FromIso(store[i].completed_at) <= FromIso(store'[i].completed_at)
                    /\ TextLeq(store[i].completed_at, store'[i].completed_at)]_vars

====
